---- MODULE Spec2Model ----
(***************************************************************************)
(* A model of zan-shop/money: the currency enumeration and its validation  *)
(* (src/src/currency.enum.ts), the decimal wrapper ZanNumber               *)
(* (src/unnamed/part_000), and MoneyFactory, Money and MoneyDto            *)
(* (src/src/money-factory.ts).                                             *)
(*                                                                         *)
(* Values.  A decimal (a bignumber.js BigNumber) and a native number are   *)
(* both written as a record [k, s, c, e]:                                  *)
(*   k = "fin"      the finite value  s * c * 10^(-e), s in {1, -1},       *)
(*                  normalised (c has no trailing zero unless e = 0);      *)
(*                  c = 0 with s = -1 is negative zero;                    *)
(*   k = "NaN"      not a number;                                          *)
(*   k = "Infinity" s * infinity.                                          *)
(* A native number is designated by its shortest decimal literal, which is *)
(* what new BigNumber(number) reads (String(number)) for the numbers of at *)
(* most 15 significant digits used here.                                   *)
(* A string is a sequence of one-character strings.                        *)
(* A JavaScript value of unknown type is a record [t, v]: t is its type    *)
(* tag, v its payload.                                                     *)
(***************************************************************************)
EXTENDS Integers, Sequences, FiniteSets, TLC

(***************************************************************************)
(* Bounds of the model.                                                    *)
(***************************************************************************)
\* Money instances kept alive (referenced by the caller) at once.
MaxMonies == 2
\* Operands of a static Money.sum / Money.min / Money.max call.
MaxArgs == 3
\* Largest scale passed explicitly, and largest reconfigured DECIMAL_PLACES.
MaxScale == 1
\* Largest magnitude of the integer cents of a fromCents(...).toCents() chain.
MaxCents == 120
\* Largest magnitude, in thousandths, of the amount of a new Money(...).toCents()
\* chain.
MaxThousandths == 30
MaxFractionZeros == 6

(***************************************************************************)
(* bignumber.js: the decimal primitive.                                    *)
(***************************************************************************)
\* bignumber.js' initial DECIMAL_PLACES, as the comments of ZanNumber record.
DEFAULT_DECIMAL_PLACES == 20

Pow10(n) == 10 ^ n

Abs(n) == IF n < 0 THEN -n ELSE n

Sgn(n) == IF n < 0 THEN -1 ELSE 1

MaxOf(a, b) == IF a >= b THEN a ELSE b

RECURSIVE Strip(_, _)
\* The coefficient and exponent with trailing fractional zeros removed.
Strip(c, e) == IF e > 0 /\ c % 10 = 0 THEN Strip(c \div 10, e - 1) ELSE <<c, e>>

Fin(s, c, e) ==
    LET p == Strip(c, e) IN [k |-> "fin", s |-> s, c |-> p[1], e |-> p[2]]

NaN == [k |-> "NaN", s |-> 1, c |-> 0, e |-> 0]

Inf(s) == [k |-> "Infinity", s |-> s, c |-> 0, e |-> 0]

\* BigNumber.prototype.isNaN
IsNaN(x) == x.k = "NaN"

\* BigNumber.prototype.isFinite
IsFinite(x) == x.k = "fin"

\* BigNumber.prototype.isZero
IsZero(x) == x.k = "fin" /\ x.c = 0

\* BigNumber.prototype.negated
Negated(x) == IF x.k = "NaN" THEN x ELSE [x EXCEPT !.s = -x.s]

\* The integer s * c * 10^(E - e) of a finite x at the common exponent E >= x.e.
Aligned(x, E) == x.s * x.c * Pow10(E - x.e)

\* BigNumber.prototype.plus: exact; a zero sum is +0 unless both are -0.
Plus(x, y) ==
    IF x.k = "NaN" \/ y.k = "NaN" THEN NaN
    ELSE IF x.k = "Infinity" /\ y.k = "Infinity"
         THEN (IF x.s = y.s THEN x ELSE NaN)
    ELSE IF x.k = "Infinity" THEN x
    ELSE IF y.k = "Infinity" THEN y
    ELSE LET E == MaxOf(x.e, y.e)
             n == Aligned(x, E) + Aligned(y, E)
         IN  IF n # 0 THEN Fin(Sgn(n), Abs(n), E)
             ELSE Fin(IF x.c = 0 /\ y.c = 0 /\ x.s = -1 /\ y.s = -1 THEN -1 ELSE 1, 0, 0)

\* BigNumber.prototype.minus
Minus(x, y) == Plus(x, Negated(y))

\* BigNumber.prototype.times: exact; the sign is the product of the signs.
Times(x, y) ==
    IF x.k = "NaN" \/ y.k = "NaN" THEN NaN
    ELSE IF x.k = "Infinity" \/ y.k = "Infinity"
         THEN (IF IsZero(x) \/ IsZero(y) THEN NaN ELSE Inf(x.s * y.s))
    ELSE Fin(x.s * y.s, x.c * y.c, x.e + y.e)

\* bignumber.js rounding modes: to the nearest, a tie away from zero; to the
\* nearest, a tie towards zero.
ROUND_HALF_UP == "ROUND_HALF_UP"
ROUND_HALF_DOWN == "ROUND_HALF_DOWN"

\* The magnitude num / den rounded to an integer in rounding mode rm.
Rounded(num, den, rm) ==
    LET q == num \div den
        r == num % den
    IN  IF rm = ROUND_HALF_UP THEN (IF 2 * r >= den THEN q + 1 ELSE q)
        ELSE (IF 2 * r > den THEN q + 1 ELSE q)

\* bignumber.js' initial ROUNDING_MODE, which the repository never reconfigures.
ROUNDING_MODE == ROUND_HALF_UP

\* The most quotient digits the integers of the model carry.
QuotientCap == MaxScale + 3

\* The digits dividedBy is computed to: dp, or QuotientCap for a larger dp, which
\* gives the same quotient when the division is exact at QuotientCap digits.
QuotientDigits(dp) == IF dp > QuotientCap THEN QuotientCap ELSE dp

\* Whether the model computes x / y at dp decimal places.
QuotientModelled(x, y, dp) ==
    IF x.k # "fin" \/ y.k # "fin" \/ y.c = 0 \/ dp <= QuotientCap THEN TRUE
    ELSE (x.c * Pow10(QuotientCap + y.e)) % (y.c * Pow10(x.e)) = 0

\* BigNumber.prototype.dividedBy: the quotient rounded to dp decimal places
\* (DECIMAL_PLACES) with ROUNDING_MODE, whose default is ROUND_HALF_UP.
DividedBy(x, y, dp) ==
    IF x.k = "NaN" \/ y.k = "NaN" THEN NaN
    ELSE IF x.k = "Infinity" THEN (IF y.k = "Infinity" THEN NaN ELSE Inf(x.s * y.s))
    ELSE IF y.k = "Infinity" THEN Fin(x.s * y.s, 0, 0)
    ELSE IF y.c = 0 THEN (IF x.c = 0 THEN NaN ELSE Inf(x.s * y.s))
    ELSE Fin(x.s * y.s,
             Rounded(x.c * Pow10(QuotientDigits(dp) + y.e), y.c * Pow10(x.e),
                     ROUNDING_MODE),
             QuotientDigits(dp))

\* BigNumber.prototype.decimalPlaces(dp, rm) for an integer dp >= 0.
DecimalPlaces(x, dp, rm) ==
    IF x.k # "fin" \/ x.e <= dp THEN x
    ELSE Fin(x.s, Rounded(x.c, Pow10(x.e - dp), rm), dp)

\* The sign of x - y for finite x and y: -1, 0 or 1 (the zeros are equal).
Compare(x, y) ==
    LET E == MaxOf(x.e, y.e)
        d == Aligned(x, E) - Aligned(y, E)
    IN  IF d < 0 THEN -1 ELSE IF d > 0 THEN 1 ELSE 0

\* BigNumber.prototype.isEqualTo and the order predicates: false on NaN.
BnIsEqualTo(x, y) ==
    /\ x.k # "NaN" /\ y.k # "NaN"
    /\ IF x.k = "fin" /\ y.k = "fin" THEN Compare(x, y) = 0
       ELSE x.k = y.k /\ x.s = y.s

BnIsLessThan(x, y) ==
    /\ x.k # "NaN" /\ y.k # "NaN"
    /\ IF x.k = "fin" /\ y.k = "fin" THEN Compare(x, y) < 0
       ELSE IF x.k = "Infinity" THEN x.s = -1 /\ ~(y.k = "Infinity" /\ y.s = -1)
       ELSE y.s = 1

BnIsGreaterThan(x, y) == BnIsLessThan(y, x)

(***************************************************************************)
(* Strings and new BigNumber(string).                                      *)
(***************************************************************************)
Digits == {"0", "1", "2", "3", "4", "5", "6", "7", "8", "9"}

DigitValue(ch) ==
    CASE ch = "0" -> 0 [] ch = "1" -> 1 [] ch = "2" -> 2 [] ch = "3" -> 3
      [] ch = "4" -> 4 [] ch = "5" -> 5 [] ch = "6" -> 6 [] ch = "7" -> 7
      [] ch = "8" -> 8 [] ch = "9" -> 9

DigitChar(d) ==
    CASE d = 0 -> "0" [] d = 1 -> "1" [] d = 2 -> "2" [] d = 3 -> "3"
      [] d = 4 -> "4" [] d = 5 -> "5" [] d = 6 -> "6" [] d = 7 -> "7"
      [] d = 8 -> "8" [] d = 9 -> "9"

IsDigit(ch) == ch \in Digits

\* \w of a JavaScript regular expression, over the characters used here.
IsWordChar(ch) == ch \notin {" ", "+", "-", "."}

AllDigits(str) == \A i \in DOMAIN str : IsDigit(str[i])

RECURSIVE DigitsToNat(_)
DigitsToNat(str) ==
    IF str = <<>> THEN 0
    ELSE 10 * DigitsToNat(SubSeq(str, 1, Len(str) - 1)) + DigitValue(str[Len(str)])

RECURSIVE NatToDigits(_)
NatToDigits(n) ==
    IF n < 10 THEN <<DigitChar(n)>>
    ELSE Append(NatToDigits(n \div 10), DigitChar(n % 10))

RECURSIVE NatText(_)
\* String(n) of a natural number.
NatText(n) ==
    IF n < 10 THEN DigitChar(n) ELSE NatText(n \div 10) \o DigitChar(n % 10)

\* String(n) of an integer.
IntText(n) == IF n < 0 THEN "-" \o NatText(-n) ELSE NatText(n)

\* The first index of str holding a character of set, or 0.
IndexOf(str, set) ==
    IF \E i \in DOMAIN str : str[i] \in set
    THEN CHOOSE i \in DOMAIN str :
             str[i] \in set /\ \A j \in 1..(i - 1) : str[j] \notin set
    ELSE 0

\* bignumber.js isNumeric, mantissa part: \d+(\.\d*)? | \.\d+
IsMantissa(str) ==
    LET dot == IndexOf(str, {"."})
    IN  IF dot = 0 THEN Len(str) > 0 /\ AllDigits(str)
        ELSE /\ AllDigits(SubSeq(str, 1, dot - 1))
             /\ AllDigits(SubSeq(str, dot + 1, Len(str)))
             /\ (dot > 1 \/ Len(str) > 1)

\* bignumber.js isNumeric, exponent part after the e: [+-]?\d+
IsExponent(str) ==
    LET body == IF str # <<>> /\ str[1] \in {"+", "-"} THEN Tail(str) ELSE str
    IN  body # <<>> /\ AllDigits(body)

\* bignumber.js isNumeric = /^-?(?:\d+(?:\.\d*)?|\.\d+)(?:e[+-]?\d+)?$/i
IsNumeric(str) ==
    LET body == IF str # <<>> /\ str[1] = "-" THEN Tail(str) ELSE str
        ePos == IndexOf(body, {"e", "E"})
    IN  IF ePos = 0 THEN IsMantissa(body)
        ELSE /\ IsMantissa(SubSeq(body, 1, ePos - 1))
             /\ IsExponent(SubSeq(body, ePos + 1, Len(body)))

\* The value of a string isNumeric accepts.
NumericValue(str) ==
    LET neg  == str[1] = "-"
        body == IF neg THEN Tail(str) ELSE str
        ePos == IndexOf(body, {"e", "E"})
        mant == IF ePos = 0 THEN body ELSE SubSeq(body, 1, ePos - 1)
        expo == IF ePos = 0 THEN <<>> ELSE SubSeq(body, ePos + 1, Len(body))
        eNeg == expo # <<>> /\ expo[1] = "-"
        eDig == IF expo # <<>> /\ expo[1] \in {"+", "-"} THEN Tail(expo) ELSE expo
        ex   == IF eNeg THEN -DigitsToNat(eDig) ELSE DigitsToNat(eDig)
        dot  == IndexOf(mant, {"."})
        frac == IF dot = 0 THEN 0 ELSE Len(mant) - dot
        c    == DigitsToNat(SelectSeq(mant, IsDigit))
        sh   == frac - ex
    IN  IF sh >= 0 THEN Fin(IF neg THEN -1 ELSE 1, c, sh)
        ELSE Fin(IF neg THEN -1 ELSE 1, c * Pow10(-sh), 0)

RECURSIVE DropLeadingSpaces(_)
DropLeadingSpaces(str) ==
    IF str # <<>> /\ str[1] = " " THEN DropLeadingSpaces(Tail(str)) ELSE str

RECURSIVE DropTrailingSpaces(_)
DropTrailingSpaces(str) ==
    IF str # <<>> /\ str[Len(str)] = " "
    THEN DropTrailingSpaces(SubSeq(str, 1, Len(str) - 1)) ELSE str

\* str.replace(whitespaceOrPlus, '') of bignumber.js parseNumeric:
\* /^\s*\+(?=[\w.])|^\s+|\s+$/g
StripWhitespaceOrPlus(str) ==
    LET l == DropLeadingSpaces(str)
        h == IF Len(l) >= 2 /\ l[1] = "+" /\ (IsWordChar(l[2]) \/ l[2] = ".")
             THEN Tail(l) ELSE l
    IN  DropTrailingSpaces(h)

StrNaN == <<"N", "a", "N">>
StrInfinity == <<"I", "n", "f", "i", "n", "i", "t", "y">>

\* new BigNumber(string) in base 10: isNumeric, else parseNumeric (a string that
\* changes when its surrounding whitespace or leading plus is removed is read
\* again; Infinity and NaN are read; anything else is NaN). The base prefixes
\* 0x, 0b and 0o are not among the strings modelled.
\* A reading that stops at the first character that is no digit, as parseFloat does.
BigNumberFromString_leadingDigit(str) ==
    IF IsNumeric(str) THEN NumericValue(str)
    ELSE IF str # <<>> /\ IsDigit(str[1]) THEN NumericValue(<<str[1]>>)
    ELSE NaN

RECURSIVE BigNumberFromString(_)
BigNumberFromString(str) ==
    IF IsNumeric(str) THEN NumericValue(str)
    ELSE LET s == StripWhitespaceOrPlus(str)
         IN  IF s = StrNaN \/ s = <<"-">> \o StrNaN THEN NaN
             ELSE IF s = StrInfinity THEN Inf(1)
             ELSE IF s = <<"-">> \o StrInfinity THEN Inf(-1)
             ELSE IF s # str THEN BigNumberFromString(s)
             ELSE NaN

\* new BigNumber(number): the decimal String(number) denotes; NaN and the
\* infinities stay what they are.
BigNumberFromNumber(n) == IF n.k = "fin" THEN Fin(n.s, n.c, n.e) ELSE n

(***************************************************************************)
(* JavaScript values and outcomes.                                         *)
(***************************************************************************)
Undefined == [t |-> "undefined", v |-> 0]
Null == [t |-> "null", v |-> 0]
PlainObject == [t |-> "object", v |-> 0]
JsNumber(n) == [t |-> "number", v |-> n]
JsString(s) == [t |-> "string", v |-> s]
\* A scale given as a number: its payload is the integer.
JsScale(n) == [t |-> "number", v |-> n]
JsBigNumber(b) == [t |-> "BigNumber", v |-> b]

\* A call's outcome: a returned value, or the message of the Error thrown.
Return(v) == [out |-> "ok", v |-> v]
Throw(message) == [out |-> message, v |-> 0]

\* The rest of a computation whose first part may have thrown.
Then(r, F(_)) == IF r.out = "ok" THEN F(r.v) ELSE r

\* A parameter with a default value: undefined selects the default.
DefaultParam(arg, dflt) == IF arg.t = "undefined" THEN dflt ELSE arg

(***************************************************************************)
(* currency.enum.ts                                                        *)
(***************************************************************************)
CurrencyEnum ==
    {"PLN", "EUR", "USD", "GBP", "CHF", "CZK", "DKK", "SEK", "NOK", "HUF", "RON",
     "BGN", "UAH", "TRY", "JPY", "CNY", "AUD", "CAD", "NZD", "ZAR", "BRL", "MXN",
     "INR", "KRW", "SGD", "HKD", "THB", "IDR", "MYR", "PHP", "SAR", "KWD", "QAR",
     "OMR", "AED", "BHD", "IQD", "SYP", "EGP"}

\* A check that takes any string for a currency code.
isValidCurrencyCode_anyString(value) == value.t = "string"

isValidCurrencyCode(value) ==
    IF value.t = "null" \/ value.t = "undefined" THEN FALSE
    ELSE value.t = "string" /\ value.v \in CurrencyEnum

\* `Invalid currency code: ${currencyCode}`: the code as the template writes it.
InvalidCurrencyError(currencyCode) ==
    "Invalid currency code: "
        \o (CASE currencyCode.t = "string" -> currencyCode.v
              [] currencyCode.t = "null" -> "null"
              [] currencyCode.t = "undefined" -> "undefined")

validateCurrencyCode(currencyCode) ==
    IF ~isValidCurrencyCode(currencyCode) THEN Throw(InvalidCurrencyError(currencyCode))
    ELSE Return(currencyCode.v)

(***************************************************************************)
(* bignumber.js, continued: construction, output, aggregation.             *)
(***************************************************************************)
\* new BigNumber(value) for a value of any type.
BigNumberNew(value) ==
    CASE value.t = "BigNumber" -> value.v
      [] value.t = "number" -> BigNumberFromNumber(value.v)
      [] value.t = "string" -> BigNumberFromString(value.v)
      [] OTHER -> NaN

\* intCheck's message for an argument below its range.
RangeError(n) == "[BigNumber Error] Argument out of range: " \o IntText(n)

\* BigNumber.prototype.decimalPlaces(scale, rm) as called: intCheck(scale, 0, MAX).
BnDecimalPlaces(x, scale, rm) ==
    IF scale < 0 THEN Throw(RangeError(scale)) ELSE Return(DecimalPlaces(x, scale, rm))

\* BigNumber.prototype.toNumber: the native number nearest to x, written as the
\* decimal it prints as. A decimal of fewer than 16 significant digits, as all
\* here are, is that number's shortest form, and a multiple of one half below
\* 2^52 is a native number itself, so halves stay halves.
BnToNumber(x) == x

Zeros(n) == [i \in 1..n |-> "0"]

\* bignumber.js' EXPONENTIAL_AT, lower end: exponential notation at 1e-7 and below.
TO_EXP_NEG == -7

\* BigNumber.prototype.toString() in base 10, of a finite x below 1e21.
BnToString(x) ==
    LET ds   == NatToDigits(x.c)
        L    == Len(ds)
        lead == L - 1 - x.e
        body == IF x.c = 0 THEN <<"0">>
                ELSE IF x.e = 0 THEN ds
                ELSE IF lead <= TO_EXP_NEG
                     THEN (IF L > 1 THEN <<ds[1], ".">> \o Tail(ds) ELSE ds)
                          \o <<"e", "-">> \o NatToDigits(-lead)
                ELSE IF L > x.e
                     THEN SubSeq(ds, 1, L - x.e) \o <<".">> \o SubSeq(ds, L - x.e + 1, L)
                ELSE <<"0", ".">> \o Zeros(x.e - L) \o ds
    IN  IF x.s < 0 /\ x.c # 0 THEN <<"-">> \o body ELSE body

\* A sum of the first and the last operand.
BigNumber_sum_ends(values) ==
    IF values = <<>> THEN NaN
    ELSE IF Len(values) = 1 THEN values[1]
    ELSE Plus(values[1], values[Len(values)])

RECURSIVE BigNumber_sum(_)
\* BigNumber.sum(...values): NaN without operands.
BigNumber_sum(values) ==
    IF values = <<>> THEN NaN
    ELSE IF Len(values) = 1 THEN values[1]
    ELSE Plus(BigNumber_sum(SubSeq(values, 1, Len(values) - 1)), values[Len(values)])

\* A min that returns its first operand.
\* The repository names no version of bignumber.js, and the library's min and
\* max changed in 9.1.2 for operands that compare equal: before, the first of
\* them is returned; from 9.1.2 on, min returns a later one when the one held is
\* not negative and max a later one when the one held is negative, so that
\* min(0, -0) is -0 and max(-0, 0) is 0.  A build has one of the two.
maxOrMinRules == {"before 9.1.2", "9.1.2"}

\* A min that returns its first operand.
BigNumber_min_first(values, rule) == IF values = <<>> THEN NaN ELSE values[1]

RECURSIVE BigNumber_min(_, _)
\* BigNumber.min(...values) under a rule of maxOrMinRules: NaN without operands
\* or with a NaN operand.
BigNumber_min(values, rule) ==
    IF values = <<>> THEN NaN
    ELSE IF Len(values) = 1 THEN values[1]
    ELSE LET m == BigNumber_min(SubSeq(values, 1, Len(values) - 1), rule)
             y == values[Len(values)]
         IN  IF m.k = "NaN" \/ y.k = "NaN" THEN NaN
             ELSE IF BnIsGreaterThan(m, y) THEN y
             ELSE IF rule = "9.1.2" /\ BnIsEqualTo(m, y) /\ m.s = 1 THEN y
             ELSE m

RECURSIVE BigNumber_max(_, _)
\* BigNumber.max(...values) under a rule of maxOrMinRules: NaN without operands
\* or with a NaN operand.
BigNumber_max(values, rule) ==
    IF values = <<>> THEN NaN
    ELSE IF Len(values) = 1 THEN values[1]
    ELSE LET m == BigNumber_max(SubSeq(values, 1, Len(values) - 1), rule)
             y == values[Len(values)]
         IN  IF m.k = "NaN" \/ y.k = "NaN" THEN NaN
             ELSE IF BnIsLessThan(m, y) THEN y
             ELSE IF rule = "9.1.2" /\ BnIsEqualTo(m, y) /\ m.s = -1 THEN y
             ELSE m

\* Math.round of a native number: the nearest integer, a tie towards +Infinity;
\* a negative argument that rounds to zero gives -0.
MathRound(n) ==
    IF n.k # "fin" THEN n
    ELSE LET den == Pow10(n.e)
             q   == n.c \div den
             r   == n.c % den
         IN  IF n.s = 1 THEN Fin(1, IF 2 * r >= den THEN q + 1 ELSE q, 0)
             ELSE Fin(-1, IF 2 * r > den THEN q + 1 ELSE q, 0)

(***************************************************************************)
(* ZanNumber.  An instance is its BigNumber value.                         *)
(***************************************************************************)
ZanBigNumberError == "Invalid ZanNumber BigNumber value: must be finite and not NaN"
ZanNumberError == "Invalid ZanNumber number value: must be finite and not NaN"
ZanStringError == "Invalid ZanNumber string format: must be finite and not NaN"
ZanTypeError == "Invalid ZanNumber input type: must be BigNumber, number, or string"
DivisionByZeroError == "Division by zero"

\* A constructor that keeps a BigNumber as it is given.
ZanNumber_new_anyBigNumber(value) ==
    IF value.t = "BigNumber" THEN Return(value.v)
    ELSE IF value.t = "number"
    THEN (IF IsNaN(value.v) \/ ~IsFinite(value.v) THEN Throw(ZanNumberError)
          ELSE Return(BigNumberFromNumber(value.v)))
    ELSE IF value.t = "string"
    THEN (LET bigNumValue == BigNumberFromString(value.v)
          IN  IF IsNaN(bigNumValue) \/ ~IsFinite(bigNumValue) THEN Throw(ZanStringError)
              ELSE Return(bigNumValue))
    ELSE Throw(ZanTypeError)

\* new ZanNumber(value)
ZanNumber_new(value) ==
    IF value.t = "BigNumber"
    THEN (IF IsNaN(value.v) \/ ~IsFinite(value.v) THEN Throw(ZanBigNumberError)
          ELSE Return(value.v))
    ELSE IF value.t = "number"
    THEN (IF IsNaN(value.v) \/ ~IsFinite(value.v) THEN Throw(ZanNumberError)
          ELSE Return(BigNumberFromNumber(value.v)))
    ELSE IF value.t = "string"
    THEN (LET bigNumValue == BigNumberFromString(value.v)
          IN  IF IsNaN(bigNumValue) \/ ~IsFinite(bigNumValue) THEN Throw(ZanStringError)
              ELSE Return(bigNumValue))
    ELSE Throw(ZanTypeError)

ZanNumber_sum(args) == ZanNumber_new(JsBigNumber(BigNumber_sum(args)))

ZanNumber_min(args, rule) == ZanNumber_new(JsBigNumber(BigNumber_min(args, rule)))

ZanNumber_max(args, rule) == ZanNumber_new(JsBigNumber(BigNumber_max(args, rule)))

\* value is a ZanNumber (its BigNumber is the payload) or is given to the constructor.
createValueForComparisonOperations(value) ==
    IF value.t = "ZanNumber" THEN Return(value.v) ELSE ZanNumber_new(value)

ZanNumber_toBigNumber(this) == this

ZanNumber_toString(this) == BnToString(this)

\* An add that keeps one fractional digit of the sum.
ZanNumber_add_oneDigit(this, other) ==
    ZanNumber_new(JsBigNumber(DecimalPlaces(Plus(this, other), 1, ROUND_HALF_UP)))

ZanNumber_add(this, other) == ZanNumber_new(JsBigNumber(Plus(this, other)))

ZanNumber_subtract(this, other) == ZanNumber_new(JsBigNumber(Minus(this, other)))

ZanNumber_multiply(this, multiplier) ==
    ZanNumber_new(JsBigNumber(Times(this, BigNumberFromNumber(multiplier))))

\* dp is BigNumber.config().DECIMAL_PLACES when the call is made.
ZanNumber_divide(this, divisor, dp) ==
    IF IsZero(BigNumberFromNumber(divisor)) THEN Throw(DivisionByZeroError)
    ELSE ZanNumber_new(JsBigNumber(DividedBy(this, BigNumberFromNumber(divisor), dp)))

\* scale: number = BigNumber.config().DECIMAL_PLACES: the parameter's default is
\* evaluated at the call, to dp, the DECIMAL_PLACES configured then.
\* A default fixed at bignumber.js' initial DECIMAL_PLACES.
DefaultScale_initial(scale, dp) ==
    IF scale.t = "undefined" THEN DEFAULT_DECIMAL_PLACES ELSE scale.v

DefaultScale(scale, dp) == IF scale.t = "undefined" THEN dp ELSE scale.v

ZanNumber_multiplyAndRound(this, multiplier, scale, dp) ==
    Then(BnDecimalPlaces(Times(this, BigNumberFromNumber(multiplier)),
                         DefaultScale(scale, dp), ROUND_HALF_UP),
         LAMBDA b : ZanNumber_new(JsBigNumber(b)))

\* A divideAndRound that leaves a zero divisor to dividedBy.
ZanNumber_divideAndRound_unguarded(this, divider, scale, dp) ==
    Then(BnDecimalPlaces(DividedBy(this, BigNumberFromNumber(divider), dp),
                         DefaultScale(scale, dp), ROUND_HALF_UP),
         LAMBDA b : ZanNumber_new(JsBigNumber(b)))

ZanNumber_divideAndRound(this, divider, scale, dp) ==
    IF IsZero(BigNumberFromNumber(divider)) THEN Throw(DivisionByZeroError)
    ELSE Then(BnDecimalPlaces(DividedBy(this, BigNumberFromNumber(divider), dp),
                              DefaultScale(scale, dp), ROUND_HALF_UP),
              LAMBDA b : ZanNumber_new(JsBigNumber(b)))

\* A round whose ties go towards zero.
ZanNumber_round_halfDown(this, scale, dp) ==
    Then(BnDecimalPlaces(this, DefaultScale(scale, dp), ROUND_HALF_DOWN),
         LAMBDA b : ZanNumber_new(JsBigNumber(b)))

ZanNumber_round(this, scale, dp) ==
    Then(BnDecimalPlaces(this, DefaultScale(scale, dp), ROUND_HALF_UP),
         LAMBDA b : ZanNumber_new(JsBigNumber(b)))

ZanNumber_isEqual(this, other) ==
    Then(createValueForComparisonOperations(other),
         LAMBDA data : Return(BnIsEqualTo(this, data)))

ZanNumber_isLessThan(this, other) ==
    Then(createValueForComparisonOperations(other),
         LAMBDA data : Return(BnIsLessThan(this, data)))

\* An isLessThanOrEqual that is isLessThan.
ZanNumber_isLessThanOrEqual_strict(this, other) ==
    Then(createValueForComparisonOperations(other),
         LAMBDA data : Return(BnIsLessThan(this, data)))

ZanNumber_isLessThanOrEqual(this, other) ==
    Then(createValueForComparisonOperations(other),
         LAMBDA data : Return(BnIsLessThan(this, data) \/ BnIsEqualTo(this, data)))

ZanNumber_isGreaterThan(this, other) ==
    Then(createValueForComparisonOperations(other),
         LAMBDA data : Return(BnIsGreaterThan(this, data)))

ZanNumber_isGreaterThanOrEqual(this, other) ==
    Then(createValueForComparisonOperations(other),
         LAMBDA data : Return(BnIsGreaterThan(this, data) \/ BnIsEqualTo(this, data)))

JsZanNumber(z) == [t |-> "ZanNumber", v |-> z]

(***************************************************************************)
(* Money.  An instance is a record [value, currencyCode]: its ZanNumber    *)
(* (_value) and its currency code.                                         *)
(***************************************************************************)
comparementError == "Cannot compare Money instances with different currencies"
sumError == "Cannot sum Money instances with different currencies"
addError == "Cannot add money with different currency codes"
subtractError == "Cannot subtract money with different currency codes"
sumEmptyError == "Cannot sum empty array"
minEmptyError == "Cannot get min of empty array"
maxEmptyError == "Cannot get max of empty array"

JsMoney(m) == [t |-> "Money", v |-> m]

isMoney(value) == value.t = "Money"

\* new Money(value, currencyCode)
Money_new(value, currencyCode) ==
    Then(validateCurrencyCode(currencyCode),
         LAMBDA code :
             Then(ZanNumber_new(value),
                  LAMBDA zn : Return([value |-> zn, currencyCode |-> code])))

\* A Money built by a method from a BigNumber and the code of an instance.
Money_wrap(zn, code) ==
    Then(zn, LAMBDA z : Money_new(JsBigNumber(ZanNumber_toBigNumber(z)), JsString(code)))

Values(args) == [i \in DOMAIN args |-> args[i].value]

\* A validation loop that looks at the second operand only.
CurrenciesDiffer_secondOnly(args) ==
    Len(args) >= 2 /\ args[2].currencyCode # args[1].currencyCode

\* Some operand after the first carries another currency code than the first.
CurrenciesDiffer(args) ==
    \E i \in 2..Len(args) : args[i].currencyCode # args[1].currencyCode

\* static Money.sum(...args)
Money_static_sum(args) ==
    IF Len(args) = 0 THEN Throw(sumEmptyError)
    ELSE IF CurrenciesDiffer(args) THEN Throw(sumError)
    ELSE Money_wrap(ZanNumber_sum(Values(args)), args[1].currencyCode)

\* A static min that reads the first operand before it looks at the length.
Money_static_min_unguarded(args, rule) ==
    IF Len(args) = 0 THEN Throw("TypeError")
    ELSE IF CurrenciesDiffer(args) THEN Throw(comparementError)
    ELSE Money_wrap(ZanNumber_min(Values(args), rule), args[1].currencyCode)

\* static Money.min(...args)
Money_static_min(args, rule) ==
    IF Len(args) = 0 THEN Throw(minEmptyError)
    ELSE IF CurrenciesDiffer(args) THEN Throw(comparementError)
    ELSE Money_wrap(ZanNumber_min(Values(args), rule), args[1].currencyCode)

\* static Money.max(...args)
Money_static_max(args, rule) ==
    IF Len(args) = 0 THEN Throw(maxEmptyError)
    ELSE IF CurrenciesDiffer(args) THEN Throw(comparementError)
    ELSE Money_wrap(ZanNumber_max(Values(args), rule), args[1].currencyCode)

Money_getCurrencyCode(this) == this.currencyCode

Money_toString(this) == ZanNumber_toString(this.value)

Money_toBigNumber(this) == ZanNumber_toBigNumber(this.value)

\* A toMoneyDto whose amount is the string of the magnitude.
Money_toMoneyDto_unsigned(this) ==
    Return([amount |-> JsString(ZanNumber_toString([this.value EXCEPT !.s = 1])),
            currency |-> JsString(this.currencyCode)])

Money_toMoneyDto(this) ==
    Return([amount |-> JsString(ZanNumber_toString(this.value)),
            currency |-> JsString(this.currencyCode)])

Money_toCents(this) ==
    Return(MathRound(BnToNumber(Times(ZanNumber_toBigNumber(this.value), Fin(1, 100, 0)))))

Money_add(this, other) ==
    IF this.currencyCode # other.currencyCode THEN Throw(addError)
    ELSE Money_wrap(ZanNumber_add(this.value, other.value), this.currencyCode)

Money_subtract(this, other) ==
    IF this.currencyCode # other.currencyCode THEN Throw(subtractError)
    ELSE Money_wrap(ZanNumber_subtract(this.value, other.value), this.currencyCode)

\* The scale handed on is already a number: Money's own default was evaluated.
Money_multiplyAndRound(this, multiplier, scale, dp) ==
    Money_wrap(ZanNumber_multiplyAndRound(this.value, multiplier,
                   JsScale(DefaultScale(scale, dp)), dp),
               this.currencyCode)

\* A divideAndRound that gives its result the default currency code.
Money_divideAndRound_defaultCode(this, divider, scale, dp) ==
    Money_wrap(ZanNumber_divideAndRound(this.value, divider,
                   JsScale(DefaultScale(scale, dp)), dp),
               "USD")

Money_divideAndRound(this, divider, scale, dp) ==
    Money_wrap(ZanNumber_divideAndRound(this.value, divider,
                   JsScale(DefaultScale(scale, dp)), dp),
               this.currencyCode)

Money_round(this, scale, dp) ==
    Money_wrap(ZanNumber_round(this.value,
                   JsScale(DefaultScale(scale, dp)), dp),
               this.currencyCode)

\* An equality that compares the amounts of any two Money instances.
Money_isEqual_anyCurrency(this, other) ==
    IF ~isMoney(other) THEN Return(FALSE)
    ELSE ZanNumber_isEqual(this.value, JsZanNumber(other.v.value))

Money_isEqual(this, other) ==
    IF ~isMoney(other) THEN Return(FALSE)
    ELSE IF this.currencyCode # other.v.currencyCode THEN Return(FALSE)
    ELSE ZanNumber_isEqual(this.value, JsZanNumber(other.v.value))

Money_isLessThan(this, other) ==
    IF this.currencyCode # other.currencyCode THEN Throw(comparementError)
    ELSE ZanNumber_isLessThan(this.value, JsZanNumber(other.value))

Money_isLessThanOrEqual(this, other) ==
    IF this.currencyCode # other.currencyCode THEN Throw(comparementError)
    ELSE ZanNumber_isLessThanOrEqual(this.value, JsZanNumber(other.value))

Money_isGreaterThan(this, other) ==
    IF this.currencyCode # other.currencyCode THEN Throw(comparementError)
    ELSE ZanNumber_isGreaterThan(this.value, JsZanNumber(other.value))

Money_isGreaterThanOrEqual(this, other) ==
    IF this.currencyCode # other.currencyCode THEN Throw(comparementError)
    ELSE ZanNumber_isGreaterThanOrEqual(this.value, JsZanNumber(other.value))

\* A min that compares the amounts without looking at the currency codes.
Money_min_unchecked(this, other) ==
    Then(ZanNumber_isLessThan(this.value, JsZanNumber(other.value)),
         LAMBDA lt : Return(IF lt THEN "this" ELSE "other"))

\* The instance returned is one of the two given: "this" or "other".
Money_min(this, other) ==
    IF this.currencyCode # other.currencyCode THEN Throw(comparementError)
    ELSE Then(Money_isLessThan(this, other),
              LAMBDA lt : Return(IF lt THEN "this" ELSE "other"))

Money_max(this, other) ==
    IF this.currencyCode # other.currencyCode THEN Throw(comparementError)
    ELSE Then(Money_isGreaterThan(this, other),
              LAMBDA gt : Return(IF gt THEN "this" ELSE "other"))

(***************************************************************************)
(* MoneyFactory.  A MoneyDto is a record [amount, currency] of values.     *)
(***************************************************************************)
invalidStringFormatError == "Invalid Money string format"
invalidNumberError == "Invalid Money number value"
invalidInputError == "Invalid Money input value"
invalidBigNumberError == "Invalid Money BigNumber value: must be finite and not NaN"
centsError == "Cents must be an integer"

USD == JsString("USD")

JsDto(amount, currency) == [t |-> "dto", v |-> [amount |-> amount, currency |-> currency]]

MoneyFactory_fromMoneyDto(dto) ==
    LET value == BigNumberNew(dto.amount)
    IN  IF IsNaN(value) \/ ~IsFinite(value) THEN Throw(invalidStringFormatError)
        ELSE Money_new(JsBigNumber(value), dto.currency)

MoneyFactory_fromNumber(value, currencyArg) ==
    LET currencyCode == DefaultParam(currencyArg, USD)
    IN  Then(validateCurrencyCode(currencyCode),
             LAMBDA code :
                 IF IsNaN(value.v) \/ ~IsFinite(value.v) THEN Throw(invalidNumberError)
                 ELSE Money_new(JsBigNumber(BigNumberFromNumber(value.v)), currencyCode))

MoneyFactory_fromString(data, currencyArg) ==
    LET currencyCode == DefaultParam(currencyArg, USD)
    IN  Then(validateCurrencyCode(currencyCode),
             LAMBDA code :
                 LET value == BigNumberFromString(data.v)
                 IN  IF IsNaN(value) \/ ~IsFinite(value)
                     THEN Throw(invalidStringFormatError)
                     ELSE Money_new(JsBigNumber(value), currencyCode))

MoneyFactory_fromAnyOrThrow(value, currencyArg) ==
    LET currencyCode == DefaultParam(currencyArg, USD)
    IN  Then(validateCurrencyCode(currencyCode),
             LAMBDA code :
                 IF value.t = "undefined" \/ value.t = "null" THEN Throw(invalidInputError)
                 ELSE IF value.t = "number" THEN MoneyFactory_fromNumber(value, currencyCode)
                 ELSE IF value.t = "string" THEN MoneyFactory_fromString(value, currencyCode)
                 ELSE IF value.t = "BigNumber"
                      THEN (IF IsNaN(value.v) \/ ~IsFinite(value.v)
                            THEN Throw(invalidBigNumberError)
                            ELSE Money_new(value, currencyCode))
                 ELSE IF value.t = "dto" /\ value.v.amount.t = "string"
                      THEN MoneyFactory_fromMoneyDto(value.v)
                 ELSE Throw(invalidInputError))

MoneyFactory_zero(currencyArg) ==
    LET currencyCode == DefaultParam(currencyArg, USD)
    IN  Then(validateCurrencyCode(currencyCode),
             LAMBDA code : Money_new(JsNumber(Fin(1, 0, 0)), currencyCode))

\* Number.isInteger(cents) of a native number.
NumberIsInteger(n) == n.k = "fin" /\ n.e = 0

\* dp is BigNumber.config().DECIMAL_PLACES when the call is made: dividedBy reads it.
MoneyFactory_fromCents(cents, currencyArg, dp) ==
    LET currencyCode == DefaultParam(currencyArg, USD)
    IN  Then(validateCurrencyCode(currencyCode),
             LAMBDA code :
                 IF ~NumberIsInteger(cents.v) \/ ~IsFinite(cents.v) THEN Throw(centsError)
                 ELSE Money_new(JsBigNumber(DividedBy(BigNumberFromNumber(cents.v),
                                                      Fin(1, 100, 0), dp)),
                                currencyCode))

(***************************************************************************)
(* The inputs of the calls.                                                *)
(***************************************************************************)
Zero == Fin(1, 0, 0)
MinusZero == Fin(-1, 0, 0)

\* Native numbers given as amounts: 2.45, -2.45, 0, NaN, Infinity.
NumberInputs == {Fin(1, 245, 2), Fin(-1, 245, 2), Zero, NaN, Inf(1)}

\* Strings given as amounts: "2.450", "0.0000001", "", "1a", "NaN", "Infinity".
StringInputs ==
    {<<"2", ".", "4", "5", "0">>, <<"0", ".", "0", "0", "0", "0", "0", "0", "1">>,
     <<>>, <<"1", "a">>, StrNaN, StrInfinity}

\* BigNumbers given as amounts: -2.45, NaN, -Infinity.
BigNumberInputs == {Fin(-1, 245, 2), NaN, Inf(-1)}

\* Values given where an amount is expected.
ValueInputs ==
    {JsNumber(n) : n \in NumberInputs} \cup {JsString(str) : str \in StringInputs}
    \cup {JsBigNumber(b) : b \in BigNumberInputs} \cup {Null, Undefined, PlainObject}

\* Values given where a currency code is expected.
CurrencyInputs == {JsString("USD"), JsString("EUR"), JsString("XXX"), Null, Undefined}

\* Transfer records given to the factory.
DtoInputs ==
    {[amount |-> JsString(str), currency |-> c] :
        str \in StringInputs, c \in CurrencyInputs}

\* Native numbers given as multiplier or divisor: -0.5, 0, -0, NaN, Infinity.
FactorInputs == {Fin(-1, 5, 1), Zero, MinusZero, NaN, Inf(1)}

\* Native numbers given as cents: 245, -5, 0.5, NaN, -Infinity.
CentsInputs == {Fin(1, 245, 0), Fin(-1, 5, 0), Fin(1, 5, 1), NaN, Inf(-1)}

\* Scales given: omitted, or one of -1 .. MaxScale.
ScaleInputs == {Undefined} \cup {JsScale(n) : n \in (-1)..MaxScale}

\* Values given to isEqual that are no Money.
NonMoneyInputs == {Null, Undefined, PlainObject}

RECURSIVE SeqsUpTo(_, _)
\* The sequences over S of length at most n.
SeqsUpTo(S, n) ==
    IF n = 0 THEN {<<>>}
    ELSE LET shorter == SeqsUpTo(S, n - 1)
         IN  shorter \cup {Append(q, x) : q \in shorter, x \in S}

(***************************************************************************)
(* The state: the Money instances alive, the process-wide DECIMAL_PLACES   *)
(* of bignumber.js, and the latest call with its outcome, which stays in   *)
(* last until the caller goes on to its next call.                         *)
(***************************************************************************)
\* monies: the Money instances alive; DECIMAL_PLACES: bignumber.js' process-wide
\* setting; last: the call just made; configuredAt[i]: the DECIMAL_PLACES in
\* effect when monies[i] was constructed (history, read by no operation).
VARIABLES monies, DECIMAL_PLACES, last, configuredAt

vars == <<monies, DECIMAL_PLACES, last, configuredAt>>

\* A constructor that writes the fields of the oldest instance alive.
Allocate_overwriting(heap, money) ==
    IF heap = <<>> THEN <<money>> ELSE [heap EXCEPT ![1] = money]

\* The constructor's writes: the fields of the new instance, and of no other.
Allocate(heap, money) == Append(heap, money)

\* No call is being looked at: the caller is about to make its next call.
NoCall == [op |-> "none", args |-> <<>>, out |-> "ok", res |-> 0]

Init ==
    /\ monies = <<>>
    /\ DECIMAL_PLACES = DEFAULT_DECIMAL_PLACES
    /\ last = NoCall
    /\ configuredAt = <<>>

\* A call that returns no new Money: it is recorded, and nothing else changes.
Observe(op, args, r) ==
    /\ last = NoCall
    /\ last' = [op |-> op, args |-> args, out |-> r.out, res |-> r.v]
    /\ UNCHANGED <<monies, DECIMAL_PLACES, configuredAt>>

\* A call that returns a new Money r.v or throws: the instance is kept alive
\* while fewer than MaxMonies are.
Produce(op, args, r) ==
    /\ last = NoCall
    /\ last' = [op |-> op, args |-> args, out |-> r.out, res |-> r.v]
    /\ IF r.out = "ok" /\ Len(monies) < MaxMonies
       THEN /\ monies' = Allocate(monies, r.v)
            /\ configuredAt' = Append(configuredAt, DECIMAL_PLACES)
       ELSE UNCHANGED <<monies, configuredAt>>
    /\ UNCHANGED DECIMAL_PLACES

\* BigNumber.config({ DECIMAL_PLACES: d })
Configure ==
    \E d \in 0..MaxScale :
        /\ last = NoCall
        /\ DECIMAL_PLACES' = d
        /\ last' = [op |-> "config", args |-> <<d>>, out |-> "ok", res |-> 0]
        /\ UNCHANGED <<monies, configuredAt>>

\* The caller has taken note of the latest outcome and goes on.
Continue ==
    /\ last # NoCall
    /\ last' = NoCall
    /\ UNCHANGED <<monies, DECIMAL_PLACES, configuredAt>>

CanConstruct == Len(monies) < MaxMonies

NewMoney ==
    \E value \in ValueInputs, c \in CurrencyInputs :
        /\ CanConstruct
        /\ Produce("new", <<value, c>>, Money_new(value, c))

FromMoneyDto ==
    \E dto \in DtoInputs :
        /\ CanConstruct
        /\ Produce("fromMoneyDto", <<dto>>, MoneyFactory_fromMoneyDto(dto))

FromNumber ==
    \E n \in NumberInputs, c \in CurrencyInputs :
        /\ CanConstruct
        /\ Produce("fromNumber", <<JsNumber(n), c>>, MoneyFactory_fromNumber(JsNumber(n), c))

FromString ==
    \E str \in StringInputs, c \in CurrencyInputs :
        /\ CanConstruct
        /\ Produce("fromString", <<JsString(str), c>>,
                   MoneyFactory_fromString(JsString(str), c))

FromAnyOrThrow ==
    \E value \in ValueInputs \cup {[t |-> "dto", v |-> d] : d \in DtoInputs},
       c \in CurrencyInputs :
        /\ CanConstruct
        /\ Produce("fromAnyOrThrow", <<value, c>>, MoneyFactory_fromAnyOrThrow(value, c))

FromZero ==
    \E c \in CurrencyInputs :
        /\ CanConstruct
        /\ Produce("zero", <<c>>, MoneyFactory_zero(c))

FromCents ==
    \E n \in CentsInputs, c \in CurrencyInputs :
        /\ CanConstruct
        /\ QuotientModelled(n, Fin(1, 100, 0), DECIMAL_PLACES)
        /\ Produce("fromCents", <<JsNumber(n), c>>,
                   MoneyFactory_fromCents(JsNumber(n), c, DECIMAL_PLACES))

Add ==
    \E i, j \in DOMAIN monies :
        Produce("add", <<i, j>>, Money_add(monies[i], monies[j]))

Subtract ==
    \E i, j \in DOMAIN monies :
        Produce("subtract", <<i, j>>, Money_subtract(monies[i], monies[j]))

MultiplyAndRound ==
    \E i \in DOMAIN monies, f \in FactorInputs, scale \in ScaleInputs :
        Produce("multiplyAndRound", <<i, f, scale>>,
                Money_multiplyAndRound(monies[i], f, scale, DECIMAL_PLACES))

DivideAndRound ==
    \E i \in DOMAIN monies, f \in FactorInputs, scale \in ScaleInputs :
        /\ QuotientModelled(monies[i].value, f, DECIMAL_PLACES)
        /\ Produce("divideAndRound", <<i, f, scale>>,
                   Money_divideAndRound(monies[i], f, scale, DECIMAL_PLACES))

Round ==
    \E i \in DOMAIN monies, scale \in ScaleInputs :
        Produce("round", <<i, scale>>, Money_round(monies[i], scale, DECIMAL_PLACES))

\* ZanNumber.multiply and ZanNumber.divide, called on the decimal of instance i;
\* the ZanNumber returned is recorded.
Multiply ==
    \E i \in DOMAIN monies, f \in FactorInputs :
        Observe("multiply", <<i, f>>, ZanNumber_multiply(monies[i].value, f))

Divide ==
    \E i \in DOMAIN monies, f \in FactorInputs :
        /\ QuotientModelled(monies[i].value, f, DECIMAL_PLACES)
        /\ Observe("divide", <<i, f>>, ZanNumber_divide(monies[i].value, f, DECIMAL_PLACES))

IsEqual ==
    \E i \in DOMAIN monies :
        \/ \E j \in DOMAIN monies :
               Observe("isEqual", <<i, [t |-> "ref", v |-> j]>>,
                       Money_isEqual(monies[i], JsMoney(monies[j])))
        \/ \E other \in NonMoneyInputs :
               Observe("isEqual", <<i, other>>, Money_isEqual(monies[i], other))

IsLessThan ==
    \E i, j \in DOMAIN monies :
        Observe("isLessThan", <<i, j>>, Money_isLessThan(monies[i], monies[j]))

IsLessThanOrEqual ==
    \E i, j \in DOMAIN monies :
        Observe("isLessThanOrEqual", <<i, j>>,
                Money_isLessThanOrEqual(monies[i], monies[j]))

IsGreaterThan ==
    \E i, j \in DOMAIN monies :
        Observe("isGreaterThan", <<i, j>>, Money_isGreaterThan(monies[i], monies[j]))

IsGreaterThanOrEqual ==
    \E i, j \in DOMAIN monies :
        Observe("isGreaterThanOrEqual", <<i, j>>,
                Money_isGreaterThanOrEqual(monies[i], monies[j]))

\* The instance returned, as its place among the instances alive.
Returned(r, i, j) ==
    IF r.out # "ok" THEN r ELSE Return(IF r.v = "this" THEN i ELSE j)

Min ==
    \E i, j \in DOMAIN monies :
        Observe("min", <<i, j>>, Returned(Money_min(monies[i], monies[j]), i, j))

Max ==
    \E i, j \in DOMAIN monies :
        Observe("max", <<i, j>>, Returned(Money_max(monies[i], monies[j]), i, j))

\* The operands of a static call: instances alive, by place, repeats allowed.
Operands(idx) == [k \in DOMAIN idx |-> monies[idx[k]]]

Sum ==
    \E idx \in SeqsUpTo(DOMAIN monies, MaxArgs) :
        Produce("sum", idx, Money_static_sum(Operands(idx)))

StaticMin ==
    \E idx \in SeqsUpTo(DOMAIN monies, MaxArgs), rule \in maxOrMinRules :
        Produce("staticMin", idx, Money_static_min(Operands(idx), rule))

StaticMax ==
    \E idx \in SeqsUpTo(DOMAIN monies, MaxArgs), rule \in maxOrMinRules :
        Produce("staticMax", idx, Money_static_max(Operands(idx), rule))

ToCents ==
    \E i \in DOMAIN monies : Observe("toCents", <<i>>, Money_toCents(monies[i]))

ToMoneyDto ==
    \E i \in DOMAIN monies : Observe("toMoneyDto", <<i>>, Money_toMoneyDto(monies[i]))

\* The five comparisons of a with b, one call after the other: the five answers,
\* or the first failure.
Comparisons ==
    \E i, j \in DOMAIN monies :
        Observe("comparisons", <<i, j>>,
            Then(Money_isLessThan(monies[i], monies[j]), LAMBDA lt :
            Then(Money_isEqual(monies[i], JsMoney(monies[j])), LAMBDA eq :
            Then(Money_isGreaterThan(monies[i], monies[j]), LAMBDA gt :
            Then(Money_isLessThanOrEqual(monies[i], monies[j]), LAMBDA le :
            Then(Money_isGreaterThanOrEqual(monies[i], monies[j]), LAMBDA ge :
                Return([lt |-> lt, eq |-> eq, gt |-> gt, le |-> le, ge |-> ge])))))))

\* MoneyFactory.fromMoneyDto(m.toMoneyDto()) for an instance m alive.
ToMoneyDtoFromMoneyDto ==
    \E i \in DOMAIN monies :
        Observe("toMoneyDto.fromMoneyDto", <<i>>,
                Then(Money_toMoneyDto(monies[i]),
                     LAMBDA dto : MoneyFactory_fromMoneyDto(dto)))

Next ==
    \/ Configure
    \/ NewMoney \/ FromMoneyDto \/ FromNumber \/ FromString \/ FromAnyOrThrow
    \/ FromZero \/ FromCents
    \/ Add \/ Subtract \/ MultiplyAndRound \/ DivideAndRound \/ Round
    \/ Multiply \/ Divide
    \/ IsEqual \/ IsLessThan \/ IsLessThanOrEqual \/ IsGreaterThan
    \/ IsGreaterThanOrEqual \/ Min \/ Max
    \/ Sum \/ StaticMin \/ StaticMax
    \/ ToCents \/ ToMoneyDto \/ ToMoneyDtoFromMoneyDto
    \/ Comparisons
    \/ Continue

Spec == Init /\ [][Next]_vars

(***************************************************************************)
(* Chained calls on a Money that the caller does not keep, as in           *)
(* MoneyFactory.fromCents(n, c).toCents(): the outcome of the chain is     *)
(* that of its last call, or the error of the first call that throws.      *)
(***************************************************************************)
\* The integers -MaxCents .. MaxCents as native numbers, -0 among them.
IntegerCents == {Fin(s, c, 0) : s \in {1, -1}, c \in 0..MaxCents}

\* Recognized currency codes given to the chains.
ChainCurrencies == {JsString("USD"), JsString("EUR")}

\* MoneyFactory.fromCents(n, c).toCents()
FromCentsToCents ==
    \E n \in IntegerCents, c \in ChainCurrencies :
        /\ QuotientModelled(n, Fin(1, 100, 0), DECIMAL_PLACES)
        /\ Observe("fromCents.toCents", <<JsNumber(n), c>>,
                   Then(MoneyFactory_fromCents(JsNumber(n), c, DECIMAL_PLACES),
                        LAMBDA m : Money_toCents(m)))

\* The native numbers k / 1000 for -MaxThousandths <= k <= MaxThousandths.
Thousandths == {Fin(s, c, 3) : s \in {1, -1}, c \in 0..MaxThousandths}

\* new Money(v, c).toCents()
NewMoneyToCents ==
    \E v \in Thousandths, c \in ChainCurrencies :
        Observe("new.toCents", <<JsNumber(v), c>>,
                Then(Money_new(JsNumber(v), c), LAMBDA m : Money_toCents(m)))

\* MoneyDto.amount: @Matches(/^-?\d+(\.\d+)?$/)
MatchesAmountPattern(str) ==
    LET body == IF str # <<>> /\ str[1] = "-" THEN Tail(str) ELSE str
        dot  == IndexOf(body, {"."})
    IN  IF dot = 0 THEN body # <<>> /\ AllDigits(body)
        ELSE /\ dot > 1
             /\ dot < Len(body)
             /\ AllDigits(SubSeq(body, 1, dot - 1))
             /\ AllDigits(SubSeq(body, dot + 1, Len(body)))

\* Strings of the MoneyDto amount pattern /^-?\d+(\.\d+)?$/ in minimal form: an
\* integer part without a redundant leading zero, a fractional part without a
\* trailing zero, and no sign on zero.
MinimalIntegerParts == {<<"0">>, <<"7">>, <<"1", "0">>}

MinimalFractionalParts ==
    {<<>>} \cup {<<".">> \o Zeros(k) \o <<d>> : k \in 0..MaxFractionZeros, d \in {"1", "5"}}

MinimalAmounts ==
    {sg \o ip \o fp : sg \in {<<>>, <<"-">>}, ip \in MinimalIntegerParts,
                      fp \in MinimalFractionalParts} \ {<<"-", "0">>}

\* MoneyFactory.fromMoneyDto({ amount: s, currency: c }).toMoneyDto()
FromMoneyDtoToMoneyDto ==
    \E s \in MinimalAmounts, c \in ChainCurrencies :
        Observe("fromMoneyDto.toMoneyDto", <<JsString(s), c>>,
                Then(MoneyFactory_fromMoneyDto([amount |-> JsString(s), currency |-> c]),
                     LAMBDA m : Money_toMoneyDto(m)))

ChainNext ==
    \/ Configure
    \/ FromCentsToCents
    \/ NewMoneyToCents
    \/ FromMoneyDtoToMoneyDto
    \/ Continue

ChainSpec == Init /\ [][ChainNext]_vars

(***************************************************************************)
(* Calls on ZanNumber itself.  The ZanNumbers at hand are those of the     *)
(* instances alive: monies[i].value.                                       *)
(***************************************************************************)
\* The ZanNumbers handed to a static call, by the place of their Money.
Decimals(idx) == [k \in DOMAIN idx |-> monies[idx[k]].value]

\* ZanNumber.sum(...args)
ZanSum ==
    \E idx \in SeqsUpTo(DOMAIN monies, MaxArgs) :
        Observe("ZanNumber.sum", idx, ZanNumber_sum(Decimals(idx)))

\* ZanNumber.min(...args)
ZanMin ==
    \E idx \in SeqsUpTo(DOMAIN monies, MaxArgs), rule \in maxOrMinRules :
        Observe("ZanNumber.min", idx, ZanNumber_min(Decimals(idx), rule))

\* ZanNumber.max(...args)
ZanMax ==
    \E idx \in SeqsUpTo(DOMAIN monies, MaxArgs), rule \in maxOrMinRules :
        Observe("ZanNumber.max", idx, ZanNumber_max(Decimals(idx), rule))

\* Values given to ZanNumber.isEqual: 2.45, NaN, "1a", null, undefined, {},
\* the BigNumber -2.45, and the ZanNumber of an instance alive.
ComparableInputs ==
    {JsNumber(Fin(1, 245, 2)), JsNumber(NaN), JsString(<<"1", "a">>),
     Null, Undefined, PlainObject, JsBigNumber(Fin(-1, 245, 2))}
    \cup {JsZanNumber(monies[j].value) : j \in DOMAIN monies}

\* z.isEqual(other) on the ZanNumber z of instance i
ZanIsEqual ==
    \E i \in DOMAIN monies, other \in ComparableInputs :
        Observe("ZanNumber.isEqual", <<i, other>>,
                ZanNumber_isEqual(monies[i].value, other))

\* Objects.  A BigNumber is an object with the writable fields s, e and c; a
\* store is the sequence of the BigNumber objects that exist, an object being
\* its place in the store.
\*
\* The object a new ZanNumber(value) holds in this.value: the object given when
\* value is a BigNumber, and otherwise the object new BigNumber(value) creates.
ZanNumber_new_held(value, given, created) ==
    IF value.t = "BigNumber" THEN given ELSE created

\* The object toBigNumber() returns: this.value.
ZanNumber_toBigNumber_returned(held) == held

\* BigNumbers a caller holds: -2.45, 0.5, 0.
HeldBigNumbers == {Fin(-1, 245, 2), Fin(1, 5, 1), Zero}

\* const b = new BigNumber(x); const z = new ZanNumber(b); b.s = sign;
\* z.toBigNumber(): the object returned and the number it holds then.
NewZanNumberToBigNumber ==
    \E b \in HeldBigNumbers, sign \in {1, -1} :
        LET given    == 1
            held     == ZanNumber_new_held(JsBigNumber(b), given, 2)
            store    == IF held = given THEN <<b>> ELSE <<b, b>>
            written  == [store EXCEPT ![given].s = sign]
            returned == ZanNumber_toBigNumber_returned(held)
        IN  Observe("ZanNumber.new.toBigNumber", <<JsBigNumber(b), sign>>,
                    Then(ZanNumber_new(JsBigNumber(b)),
                         LAMBDA z : Return([given |-> given, returned |-> returned,
                                            value |-> written[returned]])))

CoreNext ==
    \/ NewMoney
    \/ ZanSum \/ ZanMin \/ ZanMax
    \/ ZanIsEqual
    \/ NewZanNumberToBigNumber
    \/ Continue

CoreSpec == Init /\ [][CoreNext]_vars

(***************************************************************************)
(* Properties.  `last' is the call the caller has just made: its operation,*)
(* its arguments (instances by their place in `monies'), its outcome.      *)
(***************************************************************************)
InstanceBinaryOps ==
    {"add", "subtract", "isLessThan", "isLessThanOrEqual", "isGreaterThan",
     "isGreaterThanOrEqual", "min", "max"}

StaticOps == {"sum", "staticMin", "staticMax"}

CurrencyMismatchErrors == {comparementError, sumError, addError, subtractError}

\* Two finite decimals denote the same number (the two zeros do).
SameNumber(x, y) ==
    LET E == MaxOf(x.e, y.e) IN x.s * x.c * Pow10(E - x.e) = y.s * y.c * Pow10(E - y.e)

\* C1: for Money a and b whose currency codes differ, each of a.add(b),
\* a.subtract(b), a.isLessThan(b), a.isLessThanOrEqual(b), a.isGreaterThan(b),
\* a.isGreaterThanOrEqual(b), a.min(b) and a.max(b) throws a currency-mismatch
\* error and returns nothing, whatever the two amounts are.
C1_MismatchFails ==
    last.op \in InstanceBinaryOps =>
        LET a == monies[last.args[1]]
            b == monies[last.args[2]]
        IN  a.currencyCode # b.currencyCode =>
                last.out \in CurrencyMismatchErrors

\* a.min(b) on two zero amounts of different currencies has thrown.
C1_Witness ==
    /\ last.op = "min"
    /\ monies[last.args[1]].currencyCode # monies[last.args[2]].currencyCode
    /\ IsZero(monies[last.args[1]].value)
    /\ IsZero(monies[last.args[2]].value)
    /\ last.out = comparementError

\* C2: static Money.sum, Money.min and Money.max over a non-empty sequence throw
\* a currency-mismatch error if and only if some operand after the first has a
\* currency code other than the first operand's; otherwise they return a Money
\* that carries the shared currency code.
C2_StaticMismatch ==
    (last.op \in StaticOps /\ Len(last.args) > 0) =>
        LET first == monies[last.args[1]].currencyCode
            differ == \E k \in 2..Len(last.args) :
                          monies[last.args[k]].currencyCode # first
        IN  /\ (last.out \in CurrencyMismatchErrors) <=> differ
            /\ ~differ => (last.out = "ok" /\ last.res.currencyCode = first)

\* Money.min(a, b, c) has thrown where only c, the third operand, differs.
C2_Witness ==
    /\ last.op = "staticMin"
    /\ Len(last.args) = 3
    /\ monies[last.args[2]].currencyCode = monies[last.args[1]].currencyCode
    /\ monies[last.args[3]].currencyCode # monies[last.args[1]].currencyCode
    /\ last.out = comparementError

\* C3: Money.isEqual never throws; it returns true exactly when the argument is
\* a Money with the same currency code and a numerically equal value, hence
\* false for a Money of another currency and for any argument that is no Money.
C3_IsEqual ==
    last.op = "isEqual" =>
        /\ last.out = "ok"
        /\ last.res <=>
               /\ last.args[2].t = "ref"
               /\ LET a == monies[last.args[1]]
                      b == monies[last.args[2].v]
                  IN  /\ a.currencyCode = b.currencyCode
                      /\ SameNumber(a.value, b.value)

\* a.isEqual(b) has returned false for equal non-zero amounts of two currencies.
C3_Witness ==
    /\ last.op = "isEqual"
    /\ last.args[2].t = "ref"
    /\ monies[last.args[1]].currencyCode # monies[last.args[2].v].currencyCode
    /\ monies[last.args[1]].value = monies[last.args[2].v].value
    /\ ~IsZero(monies[last.args[1]].value)
    /\ last.out = "ok"
    /\ last.res = FALSE

FactoryOpsWithCode == {"fromNumber", "fromString", "fromAnyOrThrow", "fromCents"}

ConstructionOps == {"new", "fromMoneyDto", "zero"} \cup FactoryOpsWithCode

ArithmeticOps == {"add", "subtract", "multiplyAndRound", "divideAndRound", "round"}

\* The calls that return a Money that did not exist before.
ProducingOps == ConstructionOps \cup ArithmeticOps \cup StaticOps

\* value is a member of the recognized set of currency codes.
Recognized(value) == value.t = "string" /\ value.v \in CurrencyEnum

\* The currency code handed to the construction call just made.
GivenCode ==
    IF last.op = "fromMoneyDto" THEN last.args[1].currency
    ELSE IF last.op = "zero" THEN last.args[1]
    ELSE last.args[2]

\* The call just made went through MoneyFactory.fromMoneyDto with this dto.
ThroughDto(dto) ==
    \/ last.op = "fromMoneyDto" /\ dto = last.args[1]
    \/ /\ last.op = "fromAnyOrThrow"
       /\ last.args[1].t = "dto"
       /\ dto = last.args[1].v
       /\ (last.args[2].t = "undefined" \/ Recognized(last.args[2]))

\* Every Money alive or just returned has a recognized currency code.
CodesRecognized ==
    /\ \A i \in DOMAIN monies : monies[i].currencyCode \in CurrencyEnum
    /\ (last.op \in ProducingOps /\ last.out = "ok") =>
           last.res.currencyCode \in CurrencyEnum

\* C4 as stated: every Money has a recognized currency code, and a construction
\* (the constructor or any MoneyFactory method) given a code outside the
\* recognized set, null and undefined included, throws the invalid-currency
\* error for every amount.
C4_AsStated ==
    /\ CodesRecognized
    /\ (last.op \in ConstructionOps /\ ~Recognized(GivenCode)) =>
           last.out = InvalidCurrencyError(GivenCode)

\* The call just made is fromAnyOrThrow on a transfer record.
RecordGiven == last.op = "fromAnyOrThrow" /\ last.args[1].t = "dto"

\* The call just made has thrown no invalid-currency error.
NoInvalidCurrencyError == \A c \in CurrencyInputs : last.out # InvalidCurrencyError(c)

\* C4: every Money has a recognized currency code.  The constructor given a code
\* outside the set (null and undefined included) throws the invalid-currency
\* error for every value.  fromNumber, fromString, fromAnyOrThrow, zero and
\* fromCents given a code argument outside the set other than undefined throw it
\* for every amount, fromAnyOrThrow also on a transfer record.  Given undefined
\* they use USD: unless the value is a transfer record they do not throw the
\* invalid-currency error, and a Money they return is in USD.  A transfer record
\* that reaches fromMoneyDto (given to it, or to fromAnyOrThrow with a code
\* argument that is undefined or recognized) is governed by its own currency:
\* outside the set, the call returns nothing and throws the invalid-currency
\* error for the record's currency if the amount parses to a finite number and
\* the string-format error if not; in the set, the call does not throw the
\* invalid-currency error and a Money it returns has the record's currency,
\* whatever the code argument.
C4_RecognizedCode ==
    /\ CodesRecognized
    /\ (last.op = "new" /\ ~Recognized(last.args[2])) =>
           last.out = InvalidCurrencyError(last.args[2])
    /\ last.op \in FactoryOpsWithCode \cup {"zero"} =>
           /\ (GivenCode.t # "undefined" /\ ~Recognized(GivenCode)) =>
                  last.out = InvalidCurrencyError(GivenCode)
           /\ (GivenCode.t = "undefined" /\ ~RecordGiven) =>
                  /\ NoInvalidCurrencyError
                  /\ last.out = "ok" => last.res.currencyCode = "USD"
    /\ \A dto \in DtoInputs :
           ThroughDto(dto) =>
               IF Recognized(dto.currency)
               THEN /\ NoInvalidCurrencyError
                    /\ last.out = "ok" => last.res.currencyCode = dto.currency.v
               ELSE last.out = IF IsFinite(BigNumberNew(dto.amount))
                               THEN InvalidCurrencyError(dto.currency)
                               ELSE invalidStringFormatError

\* fromAnyOrThrow of a record of a finite amount and the currency 'XXX', without
\* a code argument, has thrown the invalid-currency error for 'XXX'.
C4_Witness ==
    /\ RecordGiven
    /\ last.args[2] = Undefined
    /\ last.args[1].v.currency = JsString("XXX")
    /\ IsFinite(BigNumberNew(last.args[1].v.amount))
    /\ last.out = "Invalid currency code: XXX"

MultiplyOps == {"multiply", "multiplyAndRound"}

DivideOps == {"divide", "divideAndRound"}

\* The native number n is zero, positive or negative.
ZeroNumber(n) == n.k = "fin" /\ n.c = 0

\* C5: every ZanNumber and Money value that exists is finite and not NaN, and an
\* operation whose numeric result would be NaN or infinite (a product by NaN or
\* an infinity, a quotient by NaN or zero) throws instead of returning a value.
C5_Finite ==
    /\ \A i \in DOMAIN monies : monies[i].value.k = "fin"
    /\ (last.op \in ProducingOps /\ last.out = "ok") => last.res.value.k = "fin"
    /\ (last.op \in {"multiply", "divide"} /\ last.out = "ok") => last.res.k = "fin"
    /\ (last.op \in MultiplyOps /\ last.args[2].k # "fin") => last.out # "ok"
    /\ (last.op \in DivideOps /\ (last.args[2].k = "NaN" \/ ZeroNumber(last.args[2]))) =>
           last.out # "ok"

\* m.multiplyAndRound(Infinity) on a non-zero m has thrown the constructor's error.
C5_Witness ==
    /\ last.op = "multiplyAndRound"
    /\ last.args[2] = Inf(1)
    /\ ~IsZero(monies[last.args[1]].value)
    /\ last.out = ZanBigNumberError

\* C6: no call, whether it returns or throws, changes the value or the currency
\* code of an instance that exists: the receiver and every operand are after the
\* call exactly as they were before it.
C6_Immutable ==
    [][\A i \in DOMAIN monies : i \in DOMAIN monies' /\ monies'[i] = monies[i]]_vars

\* a.add(b) has returned a Money that differs from a and from b, both alive.
C6_Witness ==
    /\ last.op = "add"
    /\ last.out = "ok"
    /\ last.res # monies[last.args[1]]
    /\ last.res # monies[last.args[2]]
    /\ ~IsZero(monies[last.args[2]].value)

\* C7: the results of m.multiplyAndRound, m.divideAndRound and m.round carry
\* exactly m's currency code, for every multiplier, non-zero divisor and scale;
\* the result of a.add(b) and a.subtract(b) on operands of one currency carries
\* that shared code.
C7_CurrencyPreserved ==
    (last.op \in ArithmeticOps /\ last.out = "ok") =>
        /\ last.res.currencyCode = monies[last.args[1]].currencyCode
        /\ last.op \in {"add", "subtract"} =>
               last.res.currencyCode = monies[last.args[2]].currencyCode

\* m.divideAndRound(-0.5) on a Money in EUR has returned a Money in EUR.
C7_Witness ==
    /\ last.op = "divideAndRound"
    /\ last.args[2] = Fin(-1, 5, 1)
    /\ monies[last.args[1]].currencyCode = "EUR"
    /\ last.out = "ok"
    /\ last.res.currencyCode = "EUR"

\* C8: divide and divideAndRound throw the division-by-zero error whenever the
\* divisor is zero, positive or negative, for every dividend (zero included) and
\* every scale, given or defaulted; they return nothing then.
C8_DivisionByZero ==
    (last.op \in DivideOps /\ ZeroNumber(last.args[2])) =>
        last.out = DivisionByZeroError

\* m.divideAndRound(-0) on a zero m with the scale omitted has thrown it.
C8_Witness ==
    /\ last.op = "divideAndRound"
    /\ last.args[2] = MinusZero
    /\ last.args[3] = Undefined
    /\ IsZero(monies[last.args[1]].value)
    /\ last.out = DivisionByZeroError

\* The scale a rounding call rounds to: the one given, or the DECIMAL_PLACES
\* configured when the call is made.
ScaleInEffect(scale) == IF scale.t = "undefined" THEN DECIMAL_PLACES ELSE scale.v

\* C9: round(scale) returns the multiple of 10^-scale nearest to the value; a
\* value exactly halfway between two multiples goes to the one farther from
\* zero, negative values as well as positive ones; a value that has at most
\* `scale' fractional digits is returned numerically unchanged.
C9_RoundHalfAwayFromZero ==
    (last.op = "round" /\ last.out = "ok") =>
        LET v == monies[last.args[1]].value
            r == last.res.value
            scale == ScaleInEffect(last.args[2])
        IN  IF v.e <= scale THEN SameNumber(r, v)
            ELSE LET V == v.s * v.c
                     R == r.s * r.c * Pow10(v.e - r.e)
                     unit == Pow10(v.e - scale)
                 IN  /\ r.e <= scale
                     /\ R % unit = 0
                     /\ 2 * Abs(R - V) <= unit
                     /\ 2 * Abs(R - V) = unit => Abs(R) > Abs(V)

\* (-2.45).round(1) has returned -2.5.
C9_Witness ==
    /\ last.op = "round"
    /\ monies[last.args[1]].value = Fin(-1, 245, 2)
    /\ last.args[2] = JsScale(1)
    /\ last.out = "ok"
    /\ last.res.value = Fin(-1, 25, 1)

\* The decimal a rounding call rounds: the value, its product, its quotient.
Unrounded ==
    LET v == monies[last.args[1]].value
    IN  IF last.op = "round" THEN v
        ELSE IF last.op = "multiplyAndRound" THEN Times(v, last.args[2])
        ELSE DividedBy(v, last.args[2], DECIMAL_PLACES)

\* The scale argument of the rounding call just made.
ScaleGiven == IF last.op = "round" THEN last.args[2] ELSE last.args[3]

RoundingOps == {"round", "multiplyAndRound", "divideAndRound"}

\* C10: however reconfigurations of DECIMAL_PLACES interleave with
\* constructions and rounding calls, a call of round, multiplyAndRound or
\* divideAndRound that omits the scale rounds to the DECIMAL_PLACES configured at
\* the moment of the call, not to the one in effect when the operand was
\* constructed or at an earlier call.
C10_DefaultReadAtCall ==
    (last.op \in RoundingOps /\ ScaleGiven.t = "undefined" /\ last.out = "ok") =>
        /\ last.res.value.e <= DECIMAL_PLACES
        /\ last.res.value = DecimalPlaces(Unrounded, DECIMAL_PLACES, ROUND_HALF_UP)

\* m.round() has rounded m to the DECIMAL_PLACES of now, which is neither the
\* one m was constructed under nor one that would have left m as it is.
C10_Witness ==
    /\ last.op = "round"
    /\ last.args[2] = Undefined
    /\ last.out = "ok"
    /\ configuredAt[last.args[1]] # DECIMAL_PLACES
    /\ configuredAt[last.args[1]] >= monies[last.args[1]].value.e
    /\ monies[last.args[1]].value.e > DECIMAL_PLACES
    /\ last.res.value.e <= DECIMAL_PLACES

\* C11: for Money a and b of one currency, a.add(b) and a.subtract(b) return the
\* exact sum and difference of the two decimal values, without rounding or
\* truncation, whatever the fractional digits of the operands and whatever
\* DECIMAL_PLACES is configured.
C11_ExactSumDifference ==
    (last.op \in {"add", "subtract"} /\ last.out = "ok") =>
        LET a == monies[last.args[1]].value
            b == monies[last.args[2]].value
            r == last.res.value
            E == MaxOf(MaxOf(a.e, b.e), r.e)
            A == a.s * a.c * Pow10(E - a.e)
            B == b.s * b.c * Pow10(E - b.e)
            R == r.s * r.c * Pow10(E - r.e)
        IN  R = IF last.op = "add" THEN A + B ELSE A - B

\* a.add(b) has returned a sum of more fractional digits than the DECIMAL_PLACES
\* configured, from operands of different numbers of fractional digits.
C11_Witness ==
    /\ last.op = "add"
    /\ last.out = "ok"
    /\ monies[last.args[1]].value.e # monies[last.args[2]].value.e
    /\ ~IsZero(monies[last.args[1]].value)
    /\ ~IsZero(monies[last.args[2]].value)
    /\ last.res.value.e > DECIMAL_PLACES

\* The finite non-zero native numbers.
NonZeroFinite(n) == n.k = "fin" /\ n.c # 0

\* The decimal r is the quotient v / d rounded once to `scale' fractional
\* digits, a tie away from zero: with num / den the magnitude of the quotient in
\* units of 10^-scale, and M that of r.
QuotientRoundedOnce(r, v, d, scale) ==
    LET num == v.c * Pow10(d.e) * Pow10(scale)
        den == d.c * Pow10(v.e)
        M   == r.c * Pow10(scale - r.e)
    IN  /\ r.e <= scale
        /\ 2 * Abs(M * den - num) <= den
        /\ 2 * Abs(M * den - num) = den => M * den > num
        /\ M # 0 => r.s = v.s * d.s

\* C12: for every Money value v, every non-zero finite divisor d and every scale
\* s given, divideAndRound(d, s) returns the exact quotient v / d rounded once to
\* s fractional digits, a tie away from zero.
C12_QuotientRoundedOnce ==
    (/\ last.op = "divideAndRound"
     /\ NonZeroFinite(last.args[2])
     /\ last.args[3].t = "number"
     /\ last.args[3].v >= 0) =>
        /\ last.out = "ok"
        /\ QuotientRoundedOnce(last.res.value, monies[last.args[1]].value,
                               last.args[2], last.args[3].v)

\* C13: for every integer n and recognized currency c,
\* MoneyFactory.fromCents(n, c).toCents() returns exactly n, negative n and zero
\* included.
C13_CentsRoundTrip ==
    last.op = "fromCents.toCents" =>
        /\ last.out = "ok"
        /\ last.res = last.args[1].v

\* C14: toCents returns the integer nearest to value x 100; when value x 100 is
\* exactly halfway between two integers the result is the one farther from zero
\* or the even one, for negative values as for positive ones.  T is the value in
\* thousandths and R the integer returned.
C14_NearestCent ==
    (last.op = "new.toCents" /\ last.out = "ok") =>
        LET v == last.args[1].v
            T == v.s * v.c * Pow10(3 - v.e)
            R == last.res.s * last.res.c
        IN  /\ last.res.k = "fin" /\ last.res.e = 0
            /\ 2 * Abs(10 * R - T) <= 10
            /\ 2 * Abs(10 * R - T) = 10 => (Abs(10 * R) > Abs(T) \/ R % 2 = 0)

\* The native number n is a finite integer.
FiniteInteger(n) == n.k = "fin" /\ n.e = 0

\* C15: MoneyFactory.fromCents (given a recognized or omitted currency code)
\* throws the invalid-cents error for every cents that is not an integer or not
\* finite, and for every integer cents returns a Money whose value is exactly
\* cents / 100.
C15_FromCents ==
    (/\ last.op = "fromCents"
     /\ (Recognized(last.args[2]) \/ last.args[2].t = "undefined")) =>
        LET n == last.args[1].v
        IN  IF FiniteInteger(n)
            THEN /\ last.out = "ok"
                 /\ last.res.value.c * 100 = n.c * Pow10(last.res.value.e)
                 /\ n.c # 0 => last.res.value.s = n.s
            ELSE last.out = centsError

\* C16: for every Money m reached by constructions and operations,
\* MoneyFactory.fromMoneyDto(m.toMoneyDto()) returns a Money of m's currency code
\* and of a value numerically equal to m's.
C16_DtoRoundTrip ==
    last.op = "toMoneyDto.fromMoneyDto" =>
        /\ last.out = "ok"
        /\ last.res.currencyCode = monies[last.args[1]].currencyCode
        /\ SameNumber(last.res.value, monies[last.args[1]].value)

\* The round trip of a negative m whose amount string is in exponential
\* notation has returned m's value and currency code.
C16_Witness ==
    /\ last.op = "toMoneyDto.fromMoneyDto"
    /\ monies[last.args[1]].value.s = -1
    /\ LET amount == ZanNumber_toString(monies[last.args[1]].value)
       IN  \E k \in DOMAIN amount : amount[k] = "e"
    /\ last.out = "ok"
    /\ last.res = monies[last.args[1]]

\* C17: for every string s of the MoneyDto amount pattern in minimal form,
\* fromMoneyDto({ amount: s, currency: c }).toMoneyDto().amount is the string s.
C17_AmountRoundTrip ==
    last.op = "fromMoneyDto.toMoneyDto" =>
        /\ last.out = "ok"
        /\ last.res.amount = last.args[1]

\* The strings given that denote no finite number: "", "1a", "NaN", "Infinity".
UnparsableStrings == {<<>>, <<"1", "a">>, StrNaN, StrInfinity}

\* C18: new Money(value, code) with a recognized code fails by the shape of value:
\* a native NaN or infinity with the invalid-number error, a string that denotes
\* no finite number with the invalid-format error, a NaN or infinite BigNumber
\* with the invalid-BigNumber error, a value of any other type with the
\* invalid-type error; the failure is the one new ZanNumber(value) raises, and a
\* failed construction returns no instance.
C18_ConstructionValidates ==
    (last.op = "new" /\ Recognized(last.args[2])) =>
        LET value == last.args[1]
        IN  /\ (value.t = "number" /\ value.v.k # "fin") => last.out = ZanNumberError
            /\ (value.t = "string" /\ value.v \in UnparsableStrings) =>
                   last.out = ZanStringError
            /\ (value.t = "BigNumber" /\ value.v.k # "fin") =>
                   last.out = ZanBigNumberError
            /\ value.t \notin {"number", "string", "BigNumber"} =>
                   last.out = ZanTypeError
            /\ last.out = ZanNumber_new(value).out
            /\ last.out # "ok" => last.res = Throw(last.out).v

\* new Money('Infinity', 'USD') has thrown the invalid-format error.
C18_Witness ==
    /\ last.op = "new"
    /\ last.args = <<JsString(StrInfinity), JsString("USD")>>
    /\ last.out = ZanStringError

\* C19: for a and b of one currency, a.min(b) and a.max(b) return a or b itself,
\* the one of the smaller (larger) value, and a when the two values are equal.
C19_MinMaxInstance ==
    (/\ last.op \in {"min", "max"}
     /\ monies[last.args[1]].currencyCode = monies[last.args[2]].currencyCode) =>
        LET a == monies[last.args[1]].value
            b == monies[last.args[2]].value
        IN  /\ last.out = "ok"
            /\ last.res \in {last.args[1], last.args[2]}
            /\ (last.op = "min" /\ BnIsLessThan(a, b)) => last.res = last.args[1]
            /\ (last.op = "min" /\ BnIsLessThan(b, a)) => last.res = last.args[2]
            /\ (last.op = "max" /\ BnIsLessThan(b, a)) => last.res = last.args[1]
            /\ (last.op = "max" /\ BnIsLessThan(a, b)) => last.res = last.args[2]
            /\ SameNumber(a, b) => last.res = last.args[1]

\* The message of a static call without operands.
EmptyError(op) ==
    IF op = "sum" THEN sumEmptyError
    ELSE IF op = "staticMin" THEN minEmptyError
    ELSE maxEmptyError

\* C20: static Money.sum, Money.min and Money.max without operands throw their
\* empty-array error; with one operand they return a Money of that operand's
\* currency code and of a value numerically equal to its value.
C20_EmptyAndSingle ==
    last.op \in StaticOps =>
        /\ Len(last.args) = 0 => last.out = EmptyError(last.op)
        /\ Len(last.args) = 1 =>
               /\ last.out = "ok"
               /\ last.res.currencyCode = monies[last.args[1]].currencyCode
               /\ SameNumber(last.res.value, monies[last.args[1]].value)

\* Money.min() without operands has thrown its empty-array error while an
\* instance is alive.
C20_Witness ==
    /\ last.op = "staticMin"
    /\ last.args = <<>>
    /\ monies # <<>>
    /\ last.out = minEmptyError

ZanStaticOps == {"ZanNumber.sum", "ZanNumber.min", "ZanNumber.max"}

\* The messages the library has for a call without operands.
EmptySequenceErrors == {sumEmptyError, minEmptyError, maxEmptyError}

\* C21: ZanNumber.sum, ZanNumber.min and ZanNumber.max without operands throw an
\* empty-sequence error, and with one operand return a ZanNumber numerically
\* equal to it.
C21_CoreEmptyAndSingle ==
    last.op \in ZanStaticOps =>
        /\ Len(last.args) = 0 => last.out \in EmptySequenceErrors
        /\ Len(last.args) = 1 =>
               /\ last.out = "ok"
               /\ SameNumber(last.res, monies[last.args[1]].value)

\* The argument is a ZanNumber or a finite native number.
DecimalOrFiniteNumber(other) ==
    \/ other.t = "ZanNumber"
    \/ other.t = "number" /\ other.v.k = "fin"

\* C22: ZanNumber.isEqual given an argument that is neither a ZanNumber nor a
\* finite native number (an object, null, undefined, a non-numeric string, NaN)
\* returns false and does not throw.
C22_CoreIsEqualTotal ==
    (/\ last.op = "ZanNumber.isEqual"
     /\ ~DecimalOrFiniteNumber(last.args[2])
     /\ last.args[2].t # "BigNumber") =>
        /\ last.out = "ok"
        /\ last.res = FALSE

\* C23: a ZanNumber constructed from a BigNumber holds an object of its own: the
\* object toBigNumber returns is not the object the constructor was given, and
\* it holds the number given at construction whatever the holder of the given
\* object writes to it afterwards.
C23_OwnsItsDecimal ==
    last.op = "ZanNumber.new.toBigNumber" =>
        /\ last.out = "ok"
        /\ last.res.returned # last.res.given
        /\ SameNumber(last.res.value, last.args[1].v)

\* The values DECIMAL_PLACES takes: the initial one and those configured.
PlacesConfigured == {DEFAULT_DECIMAL_PLACES} \cup (0..MaxScale)

\* The rounding call just made, made with DECIMAL_PLACES configured as dp.
RoundingCallUnder(dp) ==
    LET m == monies[last.args[1]]
    IN  IF last.op = "round" THEN Money_round(m, last.args[2], dp)
        ELSE IF last.op = "multiplyAndRound"
        THEN Money_multiplyAndRound(m, last.args[2], last.args[3], dp)
        ELSE Money_divideAndRound(m, last.args[2], last.args[3], dp)

\* The quotient of the call just made is within the model under dp.
CallModelledUnder(dp) ==
    last.op = "divideAndRound" =>
        QuotientModelled(monies[last.args[1]].value, last.args[2], dp)

\* C24: a call of round, multiplyAndRound or divideAndRound that is given its
\* scale has the same outcome under every configured DECIMAL_PLACES: the same
\* failure, or numerically equal results.
C24_ScaleOverridesDefault ==
    (last.op \in RoundingOps /\ ScaleGiven.t = "number") =>
        \A dp \in PlacesConfigured :
            CallModelledUnder(dp) =>
                LET r == RoundingCallUnder(dp)
                IN  /\ r.out = last.out
                    /\ r.out = "ok" => SameNumber(r.v.value, last.res.value)

\* C25: multiplyAndRound and divideAndRound given NaN, Infinity or -Infinity as
\* multiplier or divisor throw and return no Money.
C25_NonFiniteFactorFails ==
    (last.op \in {"multiplyAndRound", "divideAndRound"} /\ last.args[2].k # "fin") =>
        last.out # "ok"

\* C26: the amount of every record toMoneyDto returns, for every instance
\* reached, matches the MoneyDto amount pattern /^-?\d+(\.\d+)?$/.
C26_AmountMatchesPattern ==
    last.op = "toMoneyDto" =>
        /\ last.out = "ok"
        /\ MatchesAmountPattern(last.res.amount.v)

\* The operands of the static call just made have one currency code.
OneCurrency ==
    \A k \in DOMAIN last.args :
        monies[last.args[k]].currencyCode = monies[last.args[1]].currencyCode

\* C27: static Money.min (Money.max) over a non-empty sequence of one currency
\* returns a Money whose value is numerically equal to the value of some operand
\* and which no operand isLessThan (isGreaterThan).
C27_StaticMinMax ==
    (last.op \in {"staticMin", "staticMax"} /\ Len(last.args) > 0 /\ OneCurrency) =>
        /\ last.out = "ok"
        /\ \E k \in DOMAIN last.args :
               SameNumber(last.res.value, monies[last.args[k]].value)
        /\ \A k \in DOMAIN last.args :
               IF last.op = "staticMin"
               THEN Money_isLessThan(monies[last.args[k]], last.res) = Return(FALSE)
               ELSE Money_isGreaterThan(monies[last.args[k]], last.res) = Return(FALSE)

\* Money.min(a, b, a) has returned the value of b, which is less than a's.
C27_Witness ==
    /\ last.op = "staticMin"
    /\ Len(last.args) = 3
    /\ last.args[1] = last.args[3]
    /\ BnIsLessThan(monies[last.args[2]].value, monies[last.args[1]].value)
    /\ last.out = "ok"
    /\ last.res.value = monies[last.args[2]].value

\* C28: for a and b of one currency, exactly one of a.isLessThan(b),
\* a.isEqual(b), a.isGreaterThan(b) is true; a.isLessThanOrEqual(b) is
\* (a.isLessThan(b) or a.isEqual(b)); a.isGreaterThanOrEqual(b) is
\* not a.isLessThan(b); and a and b of the same number are equal, whatever the
\* digits they were written with.
C28_TotalOrder ==
    (/\ last.op = "comparisons"
     /\ monies[last.args[1]].currencyCode = monies[last.args[2]].currencyCode) =>
        /\ last.out = "ok"
        /\ LET r == last.res
           IN  /\ r.lt \/ r.eq \/ r.gt
               /\ ~(r.lt /\ r.eq) /\ ~(r.lt /\ r.gt) /\ ~(r.eq /\ r.gt)
               /\ r.le <=> (r.lt \/ r.eq)
               /\ r.ge <=> ~r.lt
               /\ SameNumber(monies[last.args[1]].value, monies[last.args[2]].value)
                      => r.eq

\* Two instances of the number -2.45 have compared equal, neither less nor
\* greater, and each at most and at least the other.
C28_Witness ==
    /\ last.op = "comparisons"
    /\ last.args = <<1, 2>>
    /\ SameNumber(monies[1].value, Fin(-1, 245, 2))
    /\ SameNumber(monies[2].value, Fin(-1, 245, 2))
    /\ last.res = [lt |-> FALSE, eq |-> TRUE, gt |-> FALSE, le |-> TRUE, ge |-> TRUE]

RECURSIVE FoldAdd(_)
\* a1.add(a2). ... .add(an) for a non-empty sequence: the first failure stops it.
FoldAdd(args) ==
    IF Len(args) = 1 THEN Return(args[1])
    ELSE Then(FoldAdd(SubSeq(args, 1, Len(args) - 1)),
              LAMBDA acc : Money_add(acc, args[Len(args)]))

\* The orders of the operands idx.
Reorderings(idx) ==
    {q \in SeqsUpTo(DOMAIN monies, MaxArgs) :
        /\ Len(q) = Len(idx)
        /\ \A m \in DOMAIN monies :
               Cardinality({k \in DOMAIN q : q[k] = m})
                   = Cardinality({k \in DOMAIN idx : idx[k] = m})}

\* C29: Money.sum(a1, ..., an) of a non-empty sequence succeeds exactly when
\* a1.add(a2). ... .add(an) succeeds, its result isEqual to that of the chain, and
\* both hold for the operands in any order.
C29_SumIsFoldedAdd ==
    (last.op = "sum" /\ Len(last.args) >= 1) =>
        \A q \in Reorderings(last.args) :
            LET chain == FoldAdd(Operands(q))
            IN  /\ (last.out = "ok") <=> (chain.out = "ok")
                /\ last.out = "ok" =>
                       Money_isEqual(last.res, JsMoney(chain.v)) = Return(TRUE)

\* Three operands, the second another instance than the first and the third and
\* below zero, have been summed to a Money that is none of them.
C29_Witness ==
    /\ last.op = "sum"
    /\ last.args = <<2, 1, 2>>
    /\ monies[1].value.s = -1 /\ monies[1].value.c # 0
    /\ monies[2].value.c # 0
    /\ last.out = "ok"
    /\ ~SameNumber(last.res.value, monies[1].value)
    /\ ~SameNumber(last.res.value, monies[2].value)
    /\ ~SameNumber(last.res.value, Plus(monies[1].value, monies[2].value))

\* C30: MoneyFactory.fromAnyOrThrow(record, currencyCode) has, for every
\* currencyCode, the outcome of MoneyFactory.fromMoneyDto(record): the same Money
\* or the same failure.
C30_IgnoresCurrencyArgument ==
    (last.op = "fromAnyOrThrow" /\ last.args[1].t = "dto") =>
        LET r == MoneyFactory_fromMoneyDto(last.args[1].v)
        IN  last.out = r.out /\ last.res = r.v
====
